---- MODULE Spec2Model ----
(***************************************************************************)
(* The product-sync job queue of web/queue/syncJobQueue.js.                *)
(*                                                                         *)
(* The program is single-threaded JavaScript: code between two awaits runs *)
(* atomically, and every await is a point where other requests and other   *)
(* processJob invocations interleave.  One action of this model is the     *)
(* code from one await to the next.  A statement on the sqlite database is *)
(* issued by the code, takes effect later on a pool thread (DbApply), and  *)
(* its continuation runs later still; statements of different callers are  *)
(* not ordered (the database is in its default, parallel mode).            *)
(*                                                                         *)
(* currentJobController is left out: nothing reads the abort signal.       *)
(***************************************************************************)
EXTENDS Integers, Sequences, FiniteSets, TLC

\* ------------------------------------------------------------------ bounds
MaxJobs == 2        \* job ids that uuidv4 hands out
MaxWorkers == 2     \* processJob invocations alive at once
MaxReqs == 2        \* controller requests suspended at once
MaxOps == 2         \* controller requests issued in one run, requests overlapping
PauseOps == 3       \* requests issued in one run of the pause-and-resume scenarios
PausePages == 3     \* pages of the feed in the pause-and-resume scenarios
RunOps == 2         \* Start requests issued in one run of the single-job scenarios
MaxPages == 2       \* pages of the feed
MaxItems == 2       \* items of one page
SoloMaxPages == 3   \* pages of the feed in the single-job scenarios
SoloMaxItems == 2   \* items of one page in the single-job scenarios
StreakItems == 26   \* page size of the long feeds of the single-job scenarios
CancelOps == 3      \* requests issued in one run of the cancel scenarios
CancelPages == 1    \* pages of the feed in the cancel scenarios

\* ------------------------------------------------------- program constants
maxConsecutiveErrors == 50
MinBatchSize == 1
MaxBatchSize == 100
DefaultBatchSize == 50
ProgressEvery == 2

\* --------------------------------------------------------------- encodings
NullOffset == 0 - 1          \* next_offset_value null / undefined
Keep == 0 - 2                \* a column an UPDATE does not name
JobIds == 1..MaxJobs
WorkerIds == 1..MaxWorkers
ReqIds == 1..MaxReqs

VARIABLES
  currentJob,   \* the module-level currentJob; id = 0 is null
  db,           \* the sync_jobs table: job id -> row (status "absent": no row)
  dbq,          \* the statements issued and not yet run, oldest first
  nextId,       \* the next id uuidv4 returns
  workers,      \* the processJob invocations
  reqs,         \* the controller requests in progress
  last,         \* the response of the request that returned last
  opsLeft,      \* controller requests still to be issued
  feed,         \* the third-party feed: pages, page size, failure mode
  dest,         \* the destination's failure mode ("once": one more success, then failures)
  hist          \* history of the run, read by the properties only

vars == <<currentJob, db, dbq, nextId, workers, reqs, last, opsLeft, feed, dest, hist>>

\* ------------------------------------------------------------------ values
Active == {"queued", "processing", "paused"}
Terminal == {"completed", "failed", "cancelled"}

\* currentJob = null
NullJob ==
  [id |-> 0, status |-> "null", total_products |-> 0, processed_products |-> 0,
   failed_products |-> 0, current_offset |-> 0, error_message |-> "none"]

\* no row of sync_jobs with that id
NoRow ==
  [status |-> "absent", total_products |-> 0, processed_products |-> 0,
   failed_products |-> 0, current_offset |-> 0, error_message |-> "none"]

\* the row startSyncJob inserts
NewRow == [NoRow EXCEPT !.status = "queued"]

\* an updates object that names no column
NoUpd ==
  [status |-> "keep", total_products |-> Keep, processed_products |-> Keep,
   failed_products |-> Keep, current_offset |-> Keep, error_message |-> "keep"]

\* UPDATE sync_jobs SET <the named columns> on one row
SetColumns(row, u) ==
  [status |-> IF u.status = "keep" THEN row.status ELSE u.status,
   total_products |-> IF u.total_products = Keep THEN row.total_products ELSE u.total_products,
   processed_products |->
     IF u.processed_products = Keep THEN row.processed_products ELSE u.processed_products,
   failed_products |-> IF u.failed_products = Keep THEN row.failed_products ELSE u.failed_products,
   current_offset |-> IF u.current_offset = Keep THEN row.current_offset ELSE u.current_offset,
   error_message |-> IF u.error_message = "keep" THEN row.error_message ELSE u.error_message]

\* updateJobStatus after its dbRun: currentJob = { ...currentJob, ...updates } if it matches
LiveMerge(cj, jobId, u) ==
  IF cj.id # 0 /\ cj.id = jobId
    THEN LET r == SetColumns(cj, u)
         IN [id |-> cj.id, status |-> r.status, total_products |-> r.total_products,
             processed_products |-> r.processed_products,
             failed_products |-> r.failed_products,
             current_offset |-> r.current_offset, error_message |-> r.error_message]
    ELSE cj

\* ------------------------------------------------- statements on the database
NoOp == [t |-> "none", id |-> 0, set |-> NoUpd]
Update(jobId, u) == [t |-> "update", id |-> jobId, set |-> u]
Select(jobId) == [t |-> "select", id |-> jobId, set |-> NoUpd]
Insert(jobId) == [t |-> "insert", id |-> jobId, set |-> NoUpd]
Sweep == [t |-> "sweep", id |-> 0, set |-> NoUpd]

\* the table after the statement ran
DbEffect(d, op) ==
  CASE op.t = "update" ->
         [d EXCEPT ![op.id] = IF @.status = "absent" THEN @ ELSE SetColumns(@, op.set)]
    [] op.t = "insert" -> [d EXCEPT ![op.id] = NewRow]
    [] op.t = "sweep" ->
         [j \in JobIds |-> IF d[j].status \in Active
                             THEN [d[j] EXCEPT !.status = "cancelled"] ELSE d[j]]
    [] OTHER -> d

\* what the statement hands to its callback
DbResult(d, op) == IF op.t = "select" THEN d[op.id] ELSE NoRow

\* ------------------------------------------------------------------ the feed
\* number of products of the page at a cursor
PageLength(f, offset) == IF offset >= 0 /\ offset < f.pages THEN f.size ELSE 0
\* a feed that reports no next cursor on any page
NextOffsetNone(f, offset) == NullOffset
\* data.next_offset_value of the page at a cursor
NextOffset(f, offset) == IF offset >= 0 /\ offset + 1 < f.pages THEN offset + 1 ELSE NullOffset
\* hasMore: data.has_more || false; the feed sends has_more true exactly on the
\* pages that have a successor ("exact"), or false or nothing on every page ("never")
HasMore(f, offset) == f.has_more = "exact" /\ offset >= 0 /\ offset + 1 < f.pages
\* total: data.total || products.length
FeedTotal(f, offset) == IF f.pages * f.size # 0 THEN f.pages * f.size ELSE PageLength(f, offset)

\* history: the invocation the last successful Resume launched and the row as it
\* stood when Resume returned, kept until that invocation fetches its first page
NoRelaunch == [job |-> 0, w |-> 0, row |-> NoRow]

\* ------------------------------------------------------------- processJob
IdleWorker ==
  [pc |-> "idle", job |-> 0, processedProducts |-> 0, failedProducts |-> 0,
   offset_value |-> 0, consecutiveErrors |-> 0, resumeFromOffset |-> NullOffset, streak |-> 0, stored |-> NullOffset, hasMore |-> TRUE,
   n |-> 0, next |-> NullOffset, i |-> 0, op |-> NoOp, done |-> FALSE, res |-> NoRow]

Issue(wr, pc, op) == [wr EXCEPT !.pc = pc, !.op = op, !.done = FALSE, !.res = NoRow]

\* a catch block that records the message and leaves the status alone
CatchKeepsStatus(wr, msg) ==
  Issue(wr, "upd_failed", Update(wr.job, [NoUpd EXCEPT !.error_message = msg]))

\* the catch block up to its await: updateJobStatus(failed, error_message)
Catch(wr, msg) ==
  Issue(wr, "upd_failed",
        Update(wr.job, [NoUpd EXCEPT !.status = "failed", !.error_message = msg]))

\* a final status update that also stores the feed's null next offset
FinalUpdateStoresNull(wr, cj) ==
  IF cj.id # 0 /\ cj.id = wr.job
    THEN Issue(wr, "upd_done",
               Update(wr.job, [NoUpd EXCEPT !.status = "completed",
                                            !.processed_products = wr.processedProducts,
                                            !.failed_products = wr.failedProducts,
                                            !.current_offset = NullOffset]))
    ELSE IdleWorker

\* a processJob that returns after its loop without the final status update
FinalUpdateNever(wr, cj) == IdleWorker

\* the final status update, guarded by the slot still holding this job
FinalUpdate(wr, cj) ==
  IF cj.id # 0 /\ cj.id = wr.job
    THEN Issue(wr, "upd_done",
               Update(wr.job, [NoUpd EXCEPT !.status = "completed",
                                            !.processed_products = wr.processedProducts,
                                            !.failed_products = wr.failedProducts]))
    ELSE IdleWorker

\* the while condition, then the fetch of the page or the exit of the loop
LoopHead(wr, cj) ==
  IF cj.id # 0 /\ cj.id = wr.job /\ cj.status = "processing"
    THEN [wr EXCEPT !.pc = "fetch", !.op = NoOp, !.done = FALSE, !.res = NoRow]
    ELSE FinalUpdate(wr, cj)

\* a for loop that calls createShopifyProduct without looking at the slot
ForItemUnchecked(wr, cj) ==
  IF wr.i > wr.n
    THEN Issue(wr, "upd_page",
               Update(wr.job, [NoUpd EXCEPT !.processed_products = wr.processedProducts,
                                            !.failed_products = wr.failedProducts]))
    ELSE [wr EXCEPT !.pc = "create", !.op = NoOp, !.done = FALSE, !.res = NoRow]

\* the head of the for loop for item wr.i: the checks before createShopifyProduct,
\* or past the last item the progress update after the batch
ForItem(wr, cj) ==
  IF wr.i > wr.n
    THEN Issue(wr, "upd_page",
               Update(wr.job, [NoUpd EXCEPT !.processed_products = wr.processedProducts,
                                            !.failed_products = wr.failedProducts]))
  ELSE IF cj.id = 0 \/ cj.id # wr.job THEN IdleWorker
  ELSE IF cj.status = "cancelled" THEN IdleWorker
  ELSE IF cj.status = "paused"
    THEN Issue(wr, "upd_paused",
               Update(wr.job, [NoUpd EXCEPT !.processed_products = wr.processedProducts,
                                            !.failed_products = wr.failedProducts,
                                            !.current_offset = wr.offset_value,
                                            !.status = "paused"]))
  ELSE [wr EXCEPT !.pc = "create", !.op = NoOp, !.done = FALSE, !.res = NoRow]

\* processJob from its call to its first await
Launch(jobId, sess, resumeFromOffset) ==
  LET wr == [IdleWorker EXCEPT !.job = jobId, !.resumeFromOffset = resumeFromOffset]
  IN IF sess # "ok"
       THEN Catch(wr, "session")
       ELSE Issue(wr, "upd_proc", Update(jobId, [NoUpd EXCEPT !.status = "processing"]))

\* the issuers of statements: invocations and requests
W(w) == <<"w", w>>
R(r) == <<"r", r>>
\* the queue once the caller p, now in state rec, has run up to its next await
Issued(q, p, rec) == IF rec.op.t # "none" /\ ~rec.done THEN Append(q, p) ELSE q
\* the queue without the statement of p
Taken(q, p) == SelectSeq(q, LAMBDA x : x # p)
InQueue(q, p) == \E i \in 1..Len(q) : q[i] = p

\* the lowest free slot for a new invocation
FreeWorker == CHOOSE w \in WorkerIds :
  workers[w].pc = "idle" /\ \A v \in WorkerIds : workers[v].pc = "idle" => w <= v
NumFreeWorkers == Cardinality({w \in WorkerIds : workers[w].pc = "idle"})
\* requests that may still launch processJob
NumLaunching == Cardinality({r \in ReqIds : reqs[r].kind \in {"start", "resume"}})

\* a statement of an invocation takes effect on the database
DbApplyWorker(w) ==
  /\ InQueue(dbq, W(w))
  /\ dbq' = Taken(dbq, W(w))
  /\ db' = DbEffect(db, workers[w].op)
  /\ workers' = [workers EXCEPT ![w].done = TRUE, ![w].res = DbResult(db, workers[w].op),
                                 ![w].stored = IF /\ workers[w].op.t = "update"
                                                  /\ workers[w].op.set.current_offset # Keep
                                                  /\ db[workers[w].op.id].status # "absent"
                                                 THEN workers[w].op.set.current_offset
                                                 ELSE @]
  /\ UNCHANGED <<currentJob, nextId, reqs, last, opsLeft, feed, dest, hist>>

\* an invocation whose awaited statement has called back
Resumed(w, pc) == workers[w].pc = pc /\ workers[w].done

\* after updateJobStatus(processing): read the job's row
ProcessJobClaimed(w) ==
  /\ Resumed(w, "upd_proc")
  /\ currentJob' = LiveMerge(currentJob, workers[w].job, workers[w].op.set)
  /\ workers' = [workers EXCEPT ![w] = Issue(@, "read", Select(@.job))]
  /\ dbq' = Issued(dbq, W(w), workers'[w])
  /\ UNCHANGED <<db, nextId, reqs, last, opsLeft, feed, dest, hist>>

\* after getJobStatus: seed the counters and the offset, then probe the total or loop
ProcessJobSeeded(w) ==
  /\ Resumed(w, "read")
  /\ LET wr == workers[w]
         row == wr.res
         seeded == [wr EXCEPT !.processedProducts = row.processed_products,
                              !.failedProducts = row.failed_products,
                              !.offset_value = IF wr.resumeFromOffset # NullOffset
                                                 THEN wr.resumeFromOffset
                                                 ELSE row.current_offset]
     IN workers' = [workers EXCEPT ![w] =
          IF row.total_products = 0
            THEN [seeded EXCEPT !.pc = "probe", !.op = NoOp, !.done = FALSE, !.res = NoRow]
            ELSE LoopHead(seeded, currentJob)]
  /\ dbq' = Issued(dbq, W(w), workers'[w])
  /\ UNCHANGED <<currentJob, db, nextId, reqs, last, opsLeft, feed, dest, hist>>

\* the total probe returned: write status processing and the total
ProbeReturned(w) ==
  /\ workers[w].pc = "probe" /\ feed.mode # "fail"
  /\ LET total == FeedTotal(feed, 0)
         totalProducts == IF total # 0 /\ total > PageLength(feed, 0) THEN total ELSE 0
     IN workers' = [workers EXCEPT ![w] =
          Issue(@, "upd_total",
                Update(@.job, [NoUpd EXCEPT !.status = "processing",
                                            !.total_products = totalProducts]))]
  /\ hist' = [hist EXCEPT !.feedCalls[workers[w].job] = @ + 1]
  /\ dbq' = Issued(dbq, W(w), workers'[w])
  /\ UNCHANGED <<currentJob, db, nextId, reqs, last, opsLeft, feed, dest>>

\* the total probe threw
ProbeFailed(w) ==
  /\ workers[w].pc = "probe" /\ feed.mode # "ok"
  /\ workers' = [workers EXCEPT ![w] = Catch(@, "feed")]
  /\ hist' = [hist EXCEPT !.feedCalls[workers[w].job] = @ + 1]
  /\ dbq' = Issued(dbq, W(w), workers'[w])
  /\ UNCHANGED <<currentJob, db, nextId, reqs, last, opsLeft, feed, dest>>

\* after the total is written: the first test of the while condition
TotalWritten(w) ==
  /\ Resumed(w, "upd_total")
  /\ currentJob' = LiveMerge(currentJob, workers[w].job, workers[w].op.set)
  /\ workers' = [workers EXCEPT ![w] = LoopHead(@, currentJob')]
  /\ dbq' = Issued(dbq, W(w), workers'[w])
  /\ UNCHANGED <<db, nextId, reqs, last, opsLeft, feed, dest, hist>>

\* history: the page at wr.offset_value has had its last item handled
PageHandled(h, wr) ==
  IF wr.i = wr.n THEN [h EXCEPT !.handled[wr.job] = @ \cup {wr.offset_value}] ELSE h
\* history: a pause of job j succeeded with these pages handled
PauseSeen(h, j) == [h EXCEPT !.pausedWith[j] = h.handled[j]]

\* an update after the fetch that names no column
PersistNothing(wr) == Update(wr.job, NoUpd)

\* the update after the fetch: the offset the page was fetched at
PersistOffset(wr) == Update(wr.job, [NoUpd EXCEPT !.current_offset = wr.offset_value])

\* the page arrived: persist its offset
PageFetched(w) ==
  /\ workers[w].pc = "fetch" /\ feed.mode # "fail"
  /\ LET wr == workers[w]
     IN workers' = [workers EXCEPT ![w] =
          Issue([wr EXCEPT !.n = PageLength(feed, wr.offset_value),
                           !.next = NextOffset(feed, wr.offset_value),
                           !.hasMore = HasMore(feed, wr.offset_value), !.i = 0],
                "upd_off", PersistOffset(wr))]
  /\ hist' = [hist EXCEPT !.feedCalls[workers[w].job] = @ + 1,
                           !.relaunch = IF @.w = w /\ @.job = workers[w].job
                                          THEN NoRelaunch ELSE @]
  /\ dbq' = Issued(dbq, W(w), workers'[w])
  /\ UNCHANGED <<currentJob, db, nextId, reqs, last, opsLeft, feed, dest>>

\* the page fetch threw
FetchFailed(w) ==
  /\ workers[w].pc = "fetch" /\ feed.mode # "ok"
  /\ workers' = [workers EXCEPT ![w] = Catch(@, "feed")]
  /\ hist' = [hist EXCEPT !.feedCalls[workers[w].job] = @ + 1]
  /\ dbq' = Issued(dbq, W(w), workers'[w])
  /\ UNCHANGED <<currentJob, db, nextId, reqs, last, opsLeft, feed, dest>>

\* after the offset is written: an empty page ends the loop, else the first item
OffsetWritten(w) ==
  /\ Resumed(w, "upd_off")
  /\ currentJob' = LiveMerge(currentJob, workers[w].job, workers[w].op.set)
  /\ workers' = [workers EXCEPT ![w] =
       IF @.n = 0 THEN FinalUpdate(@, currentJob')
                  ELSE ForItem([@ EXCEPT !.i = 1], currentJob')]
  /\ dbq' = Issued(dbq, W(w), workers'[w])
  /\ UNCHANGED <<db, nextId, reqs, last, opsLeft, feed, dest, hist>>

\* a success branch that leaves consecutiveErrors as it was
AfterSuccessKeepsStreak(wr) == [wr EXCEPT !.processedProducts = @ + 1]

\* the statements after a successful createShopifyProduct
AfterSuccess(wr) == [wr EXCEPT !.processedProducts = @ + 1, !.consecutiveErrors = 0]

\* createShopifyProduct returned
ProductCreated(w) ==
  /\ workers[w].pc = "create" /\ dest # "fail"
  /\ LET wr == AfterSuccess([workers[w] EXCEPT !.streak = 0])
     IN workers' = [workers EXCEPT ![w] =
          IF wr.processedProducts % ProgressEvery = 0
            THEN Issue(wr, "upd_prog",
                       Update(wr.job, [NoUpd EXCEPT !.processed_products = wr.processedProducts,
                                                    !.failed_products = wr.failedProducts]))
            ELSE [wr EXCEPT !.pc = "delay"]]
  /\ dest' = IF dest = "once" THEN "fail" ELSE dest
  /\ hist' = PageHandled(hist, workers[w])
  /\ dbq' = Issued(dbq, W(w), workers'[w])
  /\ UNCHANGED <<currentJob, db, nextId, reqs, last, opsLeft, feed>>

\* a catch that counts the failed item as processed as well
AfterFailureCountsBoth(wr) ==
  [wr EXCEPT !.processedProducts = @ + 1, !.failedProducts = @ + 1,
             !.consecutiveErrors = @ + 1]

\* the first statements of the catch around createShopifyProduct
AfterFailure(wr) == [wr EXCEPT !.failedProducts = @ + 1, !.consecutiveErrors = @ + 1]

\* createShopifyProduct threw
ProductFailed(w) ==
  /\ workers[w].pc = "create" /\ dest # "ok"
  /\ LET wr == AfterFailure([workers[w] EXCEPT !.streak = @ + 1])
     IN workers' = [workers EXCEPT ![w] =
          IF wr.consecutiveErrors >= maxConsecutiveErrors
            THEN Catch(wr, "streak")
            ELSE [wr EXCEPT !.pc = "delay"]]
  /\ hist' = PageHandled(hist, workers[w])
  /\ dbq' = Issued(dbq, W(w), workers'[w])
  /\ UNCHANGED <<currentJob, db, nextId, reqs, last, opsLeft, feed, dest>>

\* after the progress update of every second product: the rate-limit delay
ProgressWritten(w) ==
  /\ Resumed(w, "upd_prog")
  /\ currentJob' = LiveMerge(currentJob, workers[w].job, workers[w].op.set)
  /\ workers' = [workers EXCEPT ![w] = [@ EXCEPT !.pc = "delay", !.op = NoOp,
                                                 !.done = FALSE, !.res = NoRow]]
  /\ dbq' = Issued(dbq, W(w), workers'[w])
  /\ UNCHANGED <<db, nextId, reqs, last, opsLeft, feed, dest, hist>>

\* the delay elapsed: the next iteration of the for loop
DelayElapsed(w) ==
  /\ workers[w].pc = "delay"
  /\ workers' = [workers EXCEPT ![w] = ForItem([@ EXCEPT !.i = @ + 1], currentJob)]
  /\ dbq' = Issued(dbq, W(w), workers'[w])
  /\ UNCHANGED <<currentJob, db, nextId, reqs, last, opsLeft, feed, dest, hist>>

\* after the progress update of the batch: stop on a null next offset, else advance
PageWritten(w) ==
  /\ Resumed(w, "upd_page")
  /\ currentJob' = LiveMerge(currentJob, workers[w].job, workers[w].op.set)
  /\ workers' = [workers EXCEPT ![w] =
       IF @.next = NullOffset
         THEN FinalUpdate(@, currentJob')
         ELSE LoopHead([@ EXCEPT !.offset_value = workers[w].next], currentJob')]
  /\ dbq' = Issued(dbq, W(w), workers'[w])
  /\ UNCHANGED <<db, nextId, reqs, last, opsLeft, feed, dest, hist>>

\* after the pause flush: return
PauseFlushed(w) ==
  /\ Resumed(w, "upd_paused")
  /\ currentJob' = LiveMerge(currentJob, workers[w].job, workers[w].op.set)
  /\ workers' = [workers EXCEPT ![w] = IdleWorker]
  /\ dbq' = Issued(dbq, W(w), workers'[w])
  /\ UNCHANGED <<db, nextId, reqs, last, opsLeft, feed, dest, hist>>

\* after the final status update: clear the slot
CompletedWritten(w) ==
  /\ Resumed(w, "upd_done")
  /\ currentJob' = NullJob
  /\ workers' = [workers EXCEPT ![w] = IdleWorker]
  /\ dbq' = Issued(dbq, W(w), workers'[w])
  /\ UNCHANGED <<db, nextId, reqs, last, opsLeft, feed, dest, hist>>

\* after the catch block's update: clear the slot
FailedWritten(w) ==
  /\ Resumed(w, "upd_failed")
  /\ currentJob' = NullJob
  /\ workers' = [workers EXCEPT ![w] = IdleWorker]
  /\ dbq' = Issued(dbq, W(w), workers'[w])
  /\ UNCHANGED <<db, nextId, reqs, last, opsLeft, feed, dest, hist>>

\* ------------------------------------------------------- the job controller
IdleReq ==
  [kind |-> "none", pc |-> "idle", job |-> 0, sess |-> "ok", bsOk |-> TRUE,
   count |-> 0, cur |-> FALSE, live |-> "none", changed |-> {},
   was |-> [j \in JobIds |-> "none"], op |-> NoOp, done |-> FALSE, res |-> NoRow]

NoResponse == [op |-> "none", id |-> 0, res |-> "none", n |-> 0]
Response(op, jobId, res, n) == [op |-> op, id |-> jobId, res |-> res, n |-> n]

\* the lowest free slot for a new request
FreeReq == CHOOSE r \in ReqIds :
  reqs[r].kind = "none" /\ \A q \in ReqIds : reqs[q].kind = "none" => r <= q
CanCall(r) == opsLeft > 0 /\ (\E q \in ReqIds : reqs[q].kind = "none") /\ r = FreeReq

\* options.batchSize || 50, then the range check
BatchSizes == {MinBatchSize - 2, MinBatchSize - 1, MinBatchSize, MaxBatchSize, MaxBatchSize + 1}
EffectiveBatchSize(b) == IF b = 0 THEN DefaultBatchSize ELSE b
ValidBatchSize(b) ==
  ~(EffectiveBatchSize(b) < MinBatchSize \/ EffectiveBatchSize(b) > MaxBatchSize)

Sessions == {"ok", "notoken", "null"}

\* history: the rows whose status the statement turns into cancelled
RowsCancelled(d, op) ==
  {j \in JobIds : d[j].status # "cancelled" /\ DbEffect(d, op)[j].status = "cancelled"}

\* a request's statement takes effect on the database
DbApplyRequest(r) ==
  /\ InQueue(dbq, R(r))
  /\ dbq' = Taken(dbq, R(r))
  /\ db' = DbEffect(db, reqs[r].op)
  /\ reqs' = [reqs EXCEPT ![r].done = TRUE, ![r].res = DbResult(db, reqs[r].op),
                          ![r].changed = @ \cup RowsCancelled(db, reqs[r].op)]
  /\ UNCHANGED <<currentJob, nextId, workers, last, opsLeft, feed, dest, hist>>

Returned(r, kind, pc) == reqs[r].kind = kind /\ reqs[r].pc = pc /\ reqs[r].done

\* startSyncJob up to its INSERT
StartCall(r, sess, b) ==
  /\ CanCall(r)
  /\ opsLeft' = opsLeft - 1
  /\ IF currentJob.id # 0
       THEN /\ last' = Response("start", 0, "AlreadyRunning", 0)
            /\ UNCHANGED <<reqs, nextId>>
     ELSE IF ~ValidBatchSize(b)
       THEN /\ last' = Response("start", 0, "InvalidConfig", 0)
            /\ UNCHANGED <<reqs, nextId>>
     ELSE IF sess = "null"
       THEN /\ last' = Response("start", 0, "TypeError", 0)
            /\ UNCHANGED <<reqs, nextId>>
     ELSE /\ nextId <= MaxJobs /\ NumFreeWorkers > NumLaunching
          /\ nextId' = nextId + 1
          /\ reqs' = [reqs EXCEPT ![r] = [IdleReq EXCEPT !.kind = "start", !.pc = "ins",
                                                         !.job = nextId, !.sess = sess,
                                                         !.op = Insert(nextId)]]
          /\ UNCHANGED last
  /\ dbq' = Issued(dbq, R(r), reqs'[r])
  /\ UNCHANGED <<currentJob, db, workers, feed, dest, hist>>

\* startSyncJob after its INSERT: install the job, launch processJob, return the id
StartInserted(r) ==
  /\ Returned(r, "start", "ins")
  /\ currentJob' = [NullJob EXCEPT !.id = reqs[r].job, !.status = "queued"]
  /\ workers' = [workers EXCEPT ![FreeWorker] = Launch(reqs[r].job, reqs[r].sess, NullOffset)]
  /\ reqs' = [reqs EXCEPT ![r] = IdleReq]
  /\ last' = Response("start", reqs[r].job, "ok", 0)
  /\ hist' = [hist EXCEPT !.ran = @ \cup {reqs[r].job},
                           !.valid = IF reqs[r].sess = "ok" THEN @ \cup {reqs[r].job} ELSE @]
  /\ dbq' = IF workers' # workers THEN Append(dbq, W(FreeWorker)) ELSE dbq
  /\ UNCHANGED <<db, nextId, opsLeft, feed, dest>>

\* the pc of the invocation running a job, when there is exactly one
WorkerPcOf(j) ==
  IF Cardinality({w \in WorkerIds : workers[w].job = j}) = 1
    THEN workers[CHOOSE w \in WorkerIds : workers[w].job = j].pc
    ELSE "none"

\* pauseSyncJob up to its first await
PauseCall(r, j) ==
  /\ CanCall(r)
  /\ opsLeft' = opsLeft - 1
  /\ IF currentJob.id # 0 /\ currentJob.id = j /\ currentJob.status = "processing"
       THEN /\ currentJob' = [currentJob EXCEPT !.status = "paused"]
            /\ last' = Response("pause", j, "ok", 0)
            /\ hist' = PauseSeen(IF \A q \in ReqIds : reqs[q].kind = "none"
                                     THEN [hist EXCEPT !.pauseAck = j, !.pauseAt = WorkerPcOf(j)]
                                     ELSE hist, j)
            /\ UNCHANGED reqs
       ELSE /\ reqs' = [reqs EXCEPT ![r] =
                 [IdleReq EXCEPT !.kind = "pause", !.pc = "read", !.job = j,
                                 !.cur = (currentJob.id = j /\ currentJob.status = "queued"),
                                 !.live = IF currentJob.id = j THEN currentJob.status
                                                               ELSE "notcurrent",
                                 !.op = Select(j)]]
            /\ UNCHANGED <<currentJob, last, hist>>
  /\ dbq' = Issued(dbq, R(r), reqs'[r])
  /\ UNCHANGED <<db, nextId, workers, feed, dest>>

\* a pauseSyncJob that looks at no row of a job outside the slot
PauseVerdictNotFound(row) == "NotFound"

\* pauseSyncJob's decision on the row it read
PauseVerdict(row) ==
  IF row.status = "absent" THEN "NotFound"
  ELSE IF row.status \in {"processing", "queued"} THEN "ok"
  ELSE "InvalidState"

\* pauseSyncJob after getJobStatus
PauseRead(r) ==
  /\ Returned(r, "pause", "read")
  /\ LET verdict == PauseVerdict(reqs[r].res)
     IN IF verdict = "ok"
          THEN /\ reqs' = [reqs EXCEPT ![r] =
                    [@ EXCEPT !.pc = "upd", !.done = FALSE, !.res = NoRow,
                              !.op = Update(reqs[r].job, [NoUpd EXCEPT !.status = "paused"])]]
               /\ UNCHANGED last
          ELSE /\ last' = Response("pause", reqs[r].job, verdict, 0)
               /\ reqs' = [reqs EXCEPT ![r] = IdleReq]
  /\ dbq' = Issued(dbq, R(r), reqs'[r])
  /\ UNCHANGED <<currentJob, db, nextId, workers, opsLeft, feed, dest, hist>>

\* pauseSyncJob after updateJobStatus(paused)
PauseWritten(r) ==
  /\ Returned(r, "pause", "upd")
  /\ currentJob' = LiveMerge(currentJob, reqs[r].job, reqs[r].op.set)
  /\ last' = Response("pause", reqs[r].job, "ok", 0)
  /\ hist' = PauseSeen(IF reqs[r].cur /\ \A q \in ReqIds \ {r} : reqs[q].kind = "none"
                          THEN [hist EXCEPT !.pauseAck = reqs[r].job, !.pauseAt = "queued"]
                          ELSE hist, reqs[r].job)
  /\ reqs' = [reqs EXCEPT ![r] = IdleReq]
  /\ UNCHANGED dbq
  /\ UNCHANGED <<db, nextId, workers, opsLeft, feed, dest>>

\* resumeSyncJob up to getJobStatus
ResumeCall(r, j, sess, b) ==
  /\ CanCall(r)
  /\ opsLeft' = opsLeft - 1
  /\ hist' = [hist EXCEPT !.pauseAck = 0, !.pauseAt = "none"]
  /\ IF currentJob.id # 0 /\ currentJob.id # j
       THEN /\ last' = Response("resume", j, "AlreadyRunning", 0)
            /\ UNCHANGED reqs
       ELSE /\ NumFreeWorkers > NumLaunching
            /\ reqs' = [reqs EXCEPT ![r] =
                 [IdleReq EXCEPT !.kind = "resume", !.pc = "read", !.job = j,
                                 !.sess = IF sess = "ok" THEN "ok" ELSE "bad",
                                 !.bsOk = ValidBatchSize(b), !.op = Select(j)]]
            /\ UNCHANGED last
  /\ dbq' = Issued(dbq, R(r), reqs'[r])
  /\ UNCHANGED <<currentJob, db, nextId, workers, feed, dest>>

\* a resumeSyncJob that resumes a row in any status
ResumeVerdictAnyStatus(row, sess) ==
  IF row.status = "absent" THEN "NotFound"
  ELSE IF sess # "ok" THEN "InvalidSession"
  ELSE "ok"

\* resumeSyncJob's checks on the row it read and on the session
ResumeVerdict(row, sess) ==
  IF row.status = "absent" THEN "NotFound"
  ELSE IF row.status # "paused" THEN "InvalidState"
  ELSE IF sess # "ok" THEN "InvalidSession"
  ELSE "ok"

\* resumeSyncJob after getJobStatus: the checks, the slot, the launch
ResumeRead(r) ==
  /\ Returned(r, "resume", "read")
  /\ LET row == reqs[r].res
         j == reqs[r].job
         verdict == ResumeVerdict(row, reqs[r].sess)
     IN IF verdict # "ok"
          THEN /\ last' = Response("resume", j, verdict, 0)
               /\ UNCHANGED <<currentJob, workers, hist>>
        ELSE /\ currentJob' = [id |-> j, status |-> "processing",
                               total_products |-> row.total_products,
                               processed_products |-> row.processed_products,
                               failed_products |-> row.failed_products,
                               current_offset |-> row.current_offset,
                               error_message |-> "none"]
             /\ IF ~reqs[r].bsOk
                  THEN /\ last' = Response("resume", j, "InvalidConfig", 0)
                       /\ UNCHANGED <<workers, hist>>
                  ELSE /\ workers' = [workers EXCEPT ![FreeWorker] =
                                        Launch(j, "ok", row.current_offset)]
                       /\ last' = Response("resume", j, "ok", 0)
                       /\ hist' = [hist EXCEPT
                            !.resumedIdle = IF \E w \in WorkerIds : workers[w].job = j
                                              THEN @ ELSE @ \cup {j},
                            !.relaunch = [job |-> j, w |-> FreeWorker, row |-> db[j]]]
  /\ reqs' = [reqs EXCEPT ![r] = IdleReq]
  /\ dbq' = IF workers' # workers THEN Append(dbq, W(FreeWorker)) ELSE dbq
  /\ UNCHANGED <<db, nextId, opsLeft, feed, dest>>

\* forceCancelAllJobs up to its first await
CancelCall(r) ==
  /\ CanCall(r)
  /\ opsLeft' = opsLeft - 1
  /\ hist' = [hist EXCEPT !.pauseAck = 0, !.pauseAt = "none"]
  /\ IF currentJob.id # 0
       THEN /\ currentJob' = [currentJob EXCEPT !.status = "cancelled"]
            /\ reqs' = [reqs EXCEPT ![r] =
                 [IdleReq EXCEPT !.kind = "cancel", !.pc = "upd", !.job = currentJob.id,
                                 !.live = currentJob.status,
                                 !.was = [j \in JobIds |-> db[j].status],
                                 !.op = Update(currentJob.id,
                                               [NoUpd EXCEPT !.status = "cancelled"])]]
       ELSE /\ reqs' = [reqs EXCEPT ![r] =
                 [IdleReq EXCEPT !.kind = "cancel", !.pc = "sweep", !.live = "notcurrent",
                                 !.was = [j \in JobIds |-> db[j].status],
                                 !.op = Sweep]]
            /\ UNCHANGED currentJob
  /\ dbq' = Issued(dbq, R(r), reqs'[r])
  /\ UNCHANGED <<db, nextId, workers, last, feed, dest>>

\* forceCancelAllJobs after updateJobStatus(cancelled): clear the slot, issue the sweep;
\* currentJob.id of a slot emptied meanwhile throws, and the catch answers success: false
CancelWritten(r) ==
  /\ Returned(r, "cancel", "upd")
  /\ IF currentJob.id = 0
       THEN /\ last' = Response("cancel", reqs[r].job, "TypeError", 0)
            /\ reqs' = [reqs EXCEPT ![r] = IdleReq]
            /\ UNCHANGED currentJob
       ELSE /\ currentJob' = NullJob
            /\ reqs' = [reqs EXCEPT ![r] =
                 [@ EXCEPT !.pc = "sweep", !.count = 1, !.done = FALSE, !.res = NoRow,
                           !.op = Sweep]]
            /\ UNCHANGED last
  /\ dbq' = Issued(dbq, R(r), reqs'[r])
  /\ UNCHANGED <<db, nextId, workers, opsLeft, feed, dest, hist>>

\* forceCancelAllJobs after the sweep: return the count
CancelSwept(r) ==
  /\ Returned(r, "cancel", "sweep")
  /\ last' = Response("cancel", reqs[r].job, "ok", reqs[r].count)
  /\ hist' = IF reqs[r].count = 1
               THEN [hist EXCEPT !.cancelled = @ \cup {reqs[r].job}] ELSE hist
  /\ reqs' = [reqs EXCEPT ![r] = IdleReq]
  /\ UNCHANGED dbq
  /\ UNCHANGED <<currentJob, db, nextId, workers, opsLeft, feed, dest>>

\* cancelSyncJob (the queue module's earlier revision) up to its await: the job in
\* the slot is marked cancelled first; any other id goes straight to the update
CancelJobCall(r, j) ==
  /\ CanCall(r)
  /\ opsLeft' = opsLeft - 1
  /\ currentJob' = IF currentJob.id # 0 /\ currentJob.id = j
                     THEN [currentJob EXCEPT !.status = "cancelled"] ELSE currentJob
  /\ reqs' = [reqs EXCEPT ![r] =
       [IdleReq EXCEPT !.kind = "canceljob", !.job = j,
                       !.pc = IF currentJob.id # 0 /\ currentJob.id = j
                                THEN "upd_cur" ELSE "upd",
                       !.op = Update(j, [NoUpd EXCEPT !.status = "cancelled"])]]
  /\ dbq' = Issued(dbq, R(r), reqs'[r])
  /\ UNCHANGED <<db, nextId, workers, last, feed, dest, hist>>

\* cancelSyncJob after updateJobStatus(cancelled): empty the slot when the job was
\* in it at the call, and answer success
CancelJobWritten(r) ==
  /\ reqs[r].kind = "canceljob" /\ reqs[r].done
  /\ currentJob' = IF reqs[r].pc = "upd_cur"
                     THEN NullJob
                     ELSE LiveMerge(currentJob, reqs[r].job, reqs[r].op.set)
  /\ last' = Response("canceljob", reqs[r].job, "ok", 0)
  /\ reqs' = [reqs EXCEPT ![r] = IdleReq]
  /\ UNCHANGED <<db, dbq, nextId, workers, opsLeft, feed, dest, hist>>

\* ------------------------------------------------------------ specifications
Modes == {"ok", "fail", "flaky"}

NoHistory ==
  [ran |-> {}, valid |-> {}, feedCalls |-> [j \in JobIds |-> 0], resumedIdle |-> {}, pauseAck |-> 0, pauseAt |-> "none",
   cancelled |-> {}, relaunch |-> NoRelaunch,
   handled |-> [j \in JobIds |-> {}], pausedWith |-> [j \in JobIds |-> {}]]

\* the state after the module is loaded: no job, an empty table
InitProgram ==
  /\ currentJob = NullJob
  /\ db = [j \in JobIds |-> NoRow]
  /\ dbq = <<>>
  /\ nextId = 1
  /\ workers = [w \in WorkerIds |-> IdleWorker]
  /\ reqs = [r \in ReqIds |-> IdleReq]
  /\ last = NoResponse
  /\ hist = NoHistory

\* any interleaving of requests and invocations; feed and destination may fail any call
Init ==
  /\ InitProgram
  /\ opsLeft = MaxOps
  /\ feed \in [pages : 0..MaxPages, size : 1..MaxItems, mode : {"flaky"}, has_more : {"exact"}]
  /\ dest = "flaky"

\* Start, Pause and Resume with a good session and batch size, one request at a
\* time, statements run in the order issued; the feed never fails, or it is a
\* feed of one item that may fail any call
InitPause ==
  /\ InitProgram
  /\ opsLeft = PauseOps
  /\ \/ /\ feed \in [pages : 1..PausePages, size : 1..MaxItems, mode : {"ok"}, has_more : {"exact"}]
        /\ dest \in {"ok", "fail"}
     \/ /\ feed \in [pages : {1}, size : {1}, mode : {"flaky"}, has_more : {"exact"}]
        /\ dest = "ok"

\* Start requests only, one at a time: a job run from start to end
InitRun ==
  /\ InitProgram
  /\ opsLeft = RunOps
  /\ \/ /\ feed \in [pages : 0..SoloMaxPages, size : 1..SoloMaxItems, mode : Modes,
                   has_more : {"exact", "never"}]
        /\ dest \in Modes
     \/ /\ feed \in [pages : {2}, size : {StreakItems}, mode : {"ok"}, has_more : {"exact"}]
        /\ dest \in {"fail", "once"}

\* the steps of processJob that need no pause
RunStep(w) ==
  \/ ProcessJobClaimed(w)
  \/ ProcessJobSeeded(w)
  \/ ProbeReturned(w)
  \/ ProbeFailed(w)
  \/ TotalWritten(w)
  \/ PageFetched(w)
  \/ FetchFailed(w)
  \/ OffsetWritten(w)
  \/ ProductCreated(w)
  \/ ProductFailed(w)
  \/ ProgressWritten(w)
  \/ DelayElapsed(w)
  \/ PageWritten(w)
  \/ CompletedWritten(w)
  \/ FailedWritten(w)

Next ==
  \/ \E w \in WorkerIds : DbApplyWorker(w) \/ RunStep(w) \/ PauseFlushed(w)
  \/ \E r \in ReqIds :
       \/ DbApplyRequest(r)
       \/ \E sess \in Sessions, b \in BatchSizes : StartCall(r, sess, b)
       \/ StartInserted(r)
       \/ \E j \in JobIds : PauseCall(r, j)
       \/ PauseRead(r)
       \/ PauseWritten(r)
       \/ \E j \in JobIds, sess \in Sessions, b \in BatchSizes : ResumeCall(r, j, sess, b)
       \/ ResumeRead(r)
       \/ CancelCall(r)
       \/ CancelWritten(r)
       \/ CancelSwept(r)

Spec == Init /\ [][Next]_vars

\* the same requests and invocations with the database running the statements in
\* the order they were issued
InOrder(p) == dbq # <<>> /\ Head(dbq) = p

NextFifo ==
  \/ \E w \in WorkerIds :
       \/ InOrder(W(w)) /\ DbApplyWorker(w)
       \/ RunStep(w)
       \/ PauseFlushed(w)
  \/ \E r \in ReqIds :
       \/ InOrder(R(r)) /\ DbApplyRequest(r)
       \/ \E sess \in Sessions, b \in BatchSizes : StartCall(r, sess, b)
       \/ StartInserted(r)
       \/ \E j \in JobIds : PauseCall(r, j)
       \/ PauseRead(r)
       \/ PauseWritten(r)
       \/ \E j \in JobIds, sess \in Sessions, b \in BatchSizes : ResumeCall(r, j, sess, b)
       \/ ResumeRead(r)
       \/ CancelCall(r)
       \/ CancelWritten(r)
       \/ CancelSwept(r)

SpecFifo == Init /\ [][NextFifo]_vars

NoRequestInFlight == \A q \in ReqIds : reqs[q].kind = "none"

NextPause ==
  \/ \E w \in WorkerIds :
       \/ InOrder(W(w)) /\ DbApplyWorker(w)
       \/ RunStep(w)
       \/ PauseFlushed(w)
  \/ \E r \in ReqIds :
       \/ InOrder(R(r)) /\ DbApplyRequest(r)
       \/ NoRequestInFlight /\ StartCall(r, "ok", DefaultBatchSize)
       \/ StartInserted(r)
       \/ NoRequestInFlight /\ \E j \in JobIds : PauseCall(r, j)
       \/ PauseRead(r)
       \/ PauseWritten(r)
       \/ NoRequestInFlight /\ \E j \in JobIds, b \in {DefaultBatchSize, MaxBatchSize + 1} :
            ResumeCall(r, j, "ok", b)
       \/ ResumeRead(r)

SpecPause == InitPause /\ [][NextPause]_vars

NextRun ==
  \/ \E w \in WorkerIds : DbApplyWorker(w) \/ RunStep(w)
  \/ \E r \in ReqIds :
       \/ DbApplyRequest(r)
       \/ NoRequestInFlight /\ \E sess \in Sessions, b \in BatchSizes : StartCall(r, sess, b)
       \/ StartInserted(r)

SpecRun == InitRun /\ [][NextRun]_vars

\* the same runs on an event loop that runs every continuation that is ready:
\* each statement is run, each await returns, each feed or destination call ends
SpecRunFair ==
  /\ SpecRun
  /\ \A w \in WorkerIds : WF_vars(DbApplyWorker(w) \/ RunStep(w))
  /\ \A r \in ReqIds : WF_vars(DbApplyRequest(r) \/ StartInserted(r))

\* Start, Pause and CancelAll requests that may overlap, statements run in the
\* order issued; feed and destination may fail any call
InitCancel ==
  /\ InitProgram
  /\ opsLeft = CancelOps
  /\ feed \in [pages : 0..CancelPages, size : 1..MaxItems, mode : {"flaky"}, has_more : {"exact"}]
  /\ dest = "flaky"

NextCancel ==
  \/ \E w \in WorkerIds :
       \/ InOrder(W(w)) /\ DbApplyWorker(w)
       \/ RunStep(w)
       \/ PauseFlushed(w)
  \/ \E r \in ReqIds :
       \/ InOrder(R(r)) /\ DbApplyRequest(r)
       \/ StartCall(r, "ok", DefaultBatchSize)
       \/ StartInserted(r)
       \/ \E j \in JobIds : PauseCall(r, j)
       \/ PauseRead(r)
       \/ PauseWritten(r)
       \/ CancelCall(r)
       \/ CancelWritten(r)
       \/ CancelSwept(r)

SpecCancel == InitCancel /\ [][NextCancel]_vars

\* Start and cancelSyncJob requests, one at a time, statements run in the order
\* issued
NextCancelJob ==
  \/ \E w \in WorkerIds :
       \/ InOrder(W(w)) /\ DbApplyWorker(w)
       \/ RunStep(w)
  \/ \E r \in ReqIds :
       \/ InOrder(R(r)) /\ DbApplyRequest(r)
       \/ NoRequestInFlight /\ StartCall(r, "ok", DefaultBatchSize)
       \/ StartInserted(r)
       \/ NoRequestInFlight /\ \E j \in JobIds : CancelJobCall(r, j)
       \/ CancelJobWritten(r)

SpecCancelJob == InitCancel /\ [][NextCancelJob]_vars

\* ------------------------------------------------------------------ claims
\* jobs whose durable row is queued, processing or paused
ActiveJobs == {j \in JobIds : db[j].status \in Active}
\* a processJob invocation of job j is still running
Running(j) == \E w \in WorkerIds : workers[w].job = j
\* every invocation launched for job j has returned
Stopped(j) == j \in hist.ran /\ ~Running(j)

\* C1: at most one row of sync_jobs is queued, processing or paused, in every
\* reachable state, whatever the interleaving of requests and invocations.
C1_AtMostOneActive == Cardinality(ActiveJobs) <= 1

\* C2: a Start called while some row is queued, processing or paused answers
\* AlreadyRunning and changes neither the table nor the slot.
C2_StartRejectedWhileActive ==
  [][(ActiveJobs # {} /\ \E r \in ReqIds, sess \in Sessions, b \in BatchSizes :
                            StartCall(r, sess, b) /\ sess = "ok" /\ ValidBatchSize(b))
       => (last'.op = "start" /\ last'.res = "AlreadyRunning"
           /\ reqs' = reqs /\ db' = db /\ currentJob' = currentJob)]_vars

\* items of the whole feed: what an uninterrupted run handles, each item once
FeedItems == feed.pages * feed.size

\* C3: a job that was paused, resumed after its invocation had returned, and then
\* completed has the counters of an uninterrupted run: every item of the feed
\* counted once (3 pages of 2 items: 6), processed when the destination succeeds.
C3_PauseResumeEquivalent ==
  \A j \in hist.resumedIdle :
    (db[j].status = "completed" /\ Stopped(j))
      => /\ db[j].processed_products + db[j].failed_products = FeedItems
         /\ dest = "ok" => (db[j].processed_products = FeedItems
                             /\ db[j].failed_products = 0)

\* the points of an invocation's run the claim names: the total probe, a page
\* fetch, an item write, the rate-limit delay
PausePoints == {"probe", "fetch", "create", "delay"}

\* C4: with a feed that never fails, after Pause(id) returned success for the
\* current job at one of those points (and no Resume or CancelAll was called
\* since), the invocation stops having
\* written status paused: once it has returned, the row is paused.  A run that
\* had nothing left to do (it completed with every item of the feed handled) is
\* not held against the claim.
C4_PauseTakesEffect ==
  \A j \in JobIds :
    (feed.mode = "ok" /\ hist.pauseAck = j /\ hist.pauseAt \in PausePoints /\ Stopped(j))
      => \/ db[j].status = "paused"
         \/ /\ db[j].status = "completed"
            /\ db[j].processed_products + db[j].failed_products = FeedItems

\* C5: a row whose status is completed, failed or cancelled keeps that status in
\* every later step, of a request or of an invocation.
C5_TerminalIsFinal ==
  [][\A j \in JobIds : db[j].status \in Terminal => db'[j].status = db[j].status]_vars

\* C6: the job that a CancelAll found in the slot and reported as cancelled
\* (count 1, hist.cancelled) has durable status cancelled once its invocation has
\* returned.
C6_CancelAllCancels ==
  \A j \in hist.cancelled : Stopped(j) => db[j].status = "cancelled"

\* a job launched with a session that has its shop and access token, all of
\* whose invocations have returned
RanToEnd(j) == j \in hist.valid /\ Stopped(j)

\* C7 as stated: against a feed that fails every call the job ends failed with
\* failed_products equal to the threshold of 50 and processed_products 0.
C7_FailsAfterThreshold ==
  \A j \in JobIds :
    (feed.mode = "fail" /\ RanToEnd(j))
      => /\ db[j].status = "failed"
         /\ db[j].failed_products = maxConsecutiveErrors
         /\ db[j].processed_products = 0

\* C7 amended: against a feed that fails every call the job ends failed after
\* its first feed call (the total probe), with both counters 0 and the feed's
\* error as error_message; it never makes a second feed call.
C7_FailsAtFirstFeedCall ==
  \A j \in JobIds :
    feed.mode = "fail"
      => /\ hist.feedCalls[j] <= 1
         /\ RanToEnd(j) => /\ db[j].status = "failed"
                           /\ db[j].error_message = "feed"
                           /\ hist.feedCalls[j] = 1
                           /\ db[j].failed_products = 0
                           /\ db[j].processed_products = 0

C7_Witness ==
  \E j \in JobIds :
    feed.mode = "fail" /\ RanToEnd(j) /\ db[j].status = "failed" /\ hist.feedCalls[j] = 1

\* C8: from one durable write to the next, a row's processed_products +
\* failed_products never decreases.
C8_CountersNeverDecrease ==
  [][\A j \in JobIds :
       db[j].status # "absent"
         => db'[j].processed_products + db'[j].failed_products
              >= db[j].processed_products + db[j].failed_products]_vars

\* C9: a Start with a valid session and batch size that found the slot empty
\* returns the id of a row that did not exist before; when it returns, that row
\* is queued and the slot holds the job; the next status the row takes is
\* processing.
C9_StartQueuesThenProcesses ==
  [][/\ \A r \in ReqIds :
          (Returned(r, "start", "ins") /\ reqs[r].sess = "ok" /\ reqs'[r] = IdleReq)
            => /\ db'[reqs[r].job].status = "queued"
               /\ currentJob'.id = reqs[r].job
     /\ \A j \in JobIds :
          /\ db'[j].status = "queued" => db[j].status \in {"absent", "queued"}
          /\ (j \in hist.valid /\ db[j].status = "queued")
               => db'[j].status \in {"queued", "processing"}]_vars

\* C10: with a feed and a destination that never fail, and no Pause or
\* CancelAll, a job that ran to its end is completed with processed_products =
\* pages * items per page and failed_products = 0.
C10_RunCompletes ==
  \A j \in JobIds :
    (feed.mode = "ok" /\ dest = "ok" /\ RanToEnd(j))
      => /\ db[j].status = "completed"
         /\ db[j].processed_products = FeedItems
         /\ db[j].failed_products = 0

C10_Witness ==
  \E j \in JobIds :
    /\ feed.mode = "ok" /\ dest = "ok" /\ RanToEnd(j)
    /\ feed.pages = 3 /\ feed.size = 2 /\ db[j].processed_products = 6

\* the cursor of the last page a complete run fetches: the page whose response
\* carries no next offset (the first page when the feed is empty)
LastPageOffset == IF feed.pages = 0 THEN 0 ELSE feed.pages - 1

\* C11 as stated: a job that completed by exhausting the feed has the feed's
\* null next offset as its durable cursor.
C11_FinalCursorIsNull ==
  \A j \in JobIds :
    (RanToEnd(j) /\ db[j].status = "completed") => db[j].current_offset = NullOffset

\* C11 amended: a job that completed by exhausting the feed has as durable
\* cursor the offset of the last page it fetched; the null next offset that
\* ended the run is never stored.
C11_FinalCursorIsLastPage ==
  \A j \in JobIds :
    (RanToEnd(j) /\ db[j].status = "completed") => db[j].current_offset = LastPageOffset

C11_Witness ==
  \E j \in JobIds :
    /\ RanToEnd(j) /\ db[j].status = "completed"
    /\ feed.pages = 3 /\ db[j].current_offset = 2

\* C12: a Resume called with a batch size outside 1..100 changes neither the
\* slot (its job and live status), nor the table, nor the set of running
\* invocations, in the step that answers it.
C12_ResumeBadBatchNoMutation ==
  [][\A r \in ReqIds :
       (Returned(r, "resume", "read") /\ ~reqs[r].bsOk /\ reqs'[r] = IdleReq)
         => /\ currentJob' = currentJob
            /\ db' = db
            /\ workers' = workers]_vars

\* job j was, or is being, started by a Start whose session has its shop and
\* access token
StartedWithCredentials(j) ==
  \/ j \in hist.valid
  \/ \E r \in ReqIds : reqs[r].kind = "start" /\ reqs[r].job = j /\ reqs[r].sess = "ok"

\* C13: a Start whose session lacks its credentials creates no row and leaves the
\* slot empty: every row of the table and the job in the slot come from a Start
\* with a session that has them.
C13_StartBadSessionNoMutation ==
  \A j \in JobIds :
    (db[j].status # "absent" \/ currentJob.id = j) => StartedWithCredentials(j)

\* C14: a Start on an empty slot with a batch size outside 1..100 (zero,
\* negative or above 100) answers InvalidConfig, issues no INSERT and leaves the
\* table and the slot as they were.
C14_StartBadBatchRejected ==
  [][\A r \in ReqIds, b \in BatchSizes :
       (currentJob.id = 0 /\ (b < MinBatchSize \/ b > MaxBatchSize) /\ StartCall(r, "ok", b))
         => /\ last'.op = "start" /\ last'.res = "InvalidConfig"
            /\ reqs' = reqs /\ db' = db /\ currentJob' = currentJob]_vars

\* C15: a Resume(id) called while another job is in the slot answers
\* AlreadyRunning without reading the table; a Resume that read no row answers
\* NotFound, and one that read a row not in status paused answers InvalidState;
\* none of these steps changes the slot, the table or the running invocations.
C15_ResumeRejections ==
  [][\A r \in ReqIds :
       /\ \A j \in JobIds, sess \in Sessions, b \in BatchSizes \cup {DefaultBatchSize} :
            (currentJob.id # 0 /\ currentJob.id # j /\ ResumeCall(r, j, sess, b))
              => /\ last' = Response("resume", j, "AlreadyRunning", 0)
                 /\ reqs' = reqs /\ dbq' = dbq
                 /\ currentJob' = currentJob /\ db' = db /\ workers' = workers
       /\ (Returned(r, "resume", "read") /\ reqs'[r] = IdleReq
             /\ reqs[r].res.status # "paused")
            => /\ last' = Response("resume", reqs[r].job,
                                   IF reqs[r].res.status = "absent"
                                     THEN "NotFound" ELSE "InvalidState", 0)
               /\ dbq' = dbq
               /\ currentJob' = currentJob /\ db' = db /\ workers' = workers]_vars

\* a Resume of a job whose row is processing was answered InvalidState
C15_Witness ==
  /\ last.op = "resume" /\ last.res = "InvalidState"
  /\ db[last.id].status = "processing" /\ currentJob.id = last.id

\* the slot as Resume leaves it for job j whose durable record is row
Rehydrated(j, row) ==
  [id |-> j, status |-> "processing", total_products |-> row.total_products,
   processed_products |-> row.processed_products,
   failed_products |-> row.failed_products,
   current_offset |-> row.current_offset, error_message |-> "none"]

\* C16: the step in which a Resume(id) succeeds leaves the slot holding the job
\* with status processing and the cursor, counters and total of its durable
\* record, and launches an invocation; the first page that invocation fetches is
\* the one at the cursor stored when Resume returned, fetched with the counters
\* stored then.
C16_ResumeRehydrates ==
  [][/\ \A r \in ReqIds :
          (/\ Returned(r, "resume", "read") /\ reqs'[r] = IdleReq
           /\ ResumeVerdict(reqs[r].res, reqs[r].sess) = "ok" /\ reqs[r].bsOk)
            => /\ currentJob' = Rehydrated(reqs[r].job, db[reqs[r].job])
               /\ \E w \in WorkerIds :
                    /\ workers[w].pc = "idle" /\ workers'[w].job = reqs[r].job
                    /\ workers'[w].pc = "upd_proc"
     /\ \A w \in WorkerIds :
          (/\ hist.relaunch.w = w /\ hist.relaunch.job = workers[w].job
           /\ workers[w].pc = "fetch" /\ workers'[w].pc = "upd_off")
            => /\ workers[w].offset_value = hist.relaunch.row.current_offset
               /\ workers[w].processedProducts = hist.relaunch.row.processed_products
               /\ workers[w].failedProducts = hist.relaunch.row.failed_products]_vars

C18_CancelCountIsRowsChanged ==
  [][\A r \in ReqIds :
       (Returned(r, "cancel", "sweep") /\ reqs'[r] = IdleReq)
         => /\ last'.op = "cancel" /\ last'.res = "ok"
            /\ last'.n = Cardinality(reqs[r].changed)]_vars

\* C19: a CancelAll called with the slot empty succeeds, and when a CancelAll
\* returns every row that was queued, processing or paused when it was called
\* (reqs[r].was) is cancelled and every row that was completed, failed or
\* cancelled has the status it had.
C19_CancelAllSweeps ==
  [][\A r \in ReqIds :
       (reqs[r].kind = "cancel" /\ reqs'[r] = IdleReq)
         => /\ reqs[r].live = "notcurrent" => (last'.op = "cancel" /\ last'.res = "ok")
            /\ \A j \in JobIds :
                 /\ reqs[r].was[j] \in Active => db'[j].status = "cancelled"
                 /\ reqs[r].was[j] \in Terminal => db'[j].status = reqs[r].was[j]]_vars

\* C20: whenever total_products of a job is known and non-zero,
\* processed_products + failed_products does not exceed it, in the row and in
\* the slot.
C20_CountersWithinTotal ==
  /\ \A j \in JobIds :
       db[j].total_products # 0
         => db[j].processed_products + db[j].failed_products <= db[j].total_products
  /\ (currentJob.id # 0 /\ currentJob.total_products # 0)
       => currentJob.processed_products + currentJob.failed_products
            <= currentJob.total_products

\* the step is the return of an updateJobStatus that invocation w awaited
FlushReturnsToWorker(w) ==
  /\ workers[w].op.t = "update" /\ workers[w].done /\ workers'[w] # workers[w]
\* the step is the return of an updateJobStatus that request r awaited
FlushReturnsToRequest(r) ==
  /\ reqs[r].op.t = "update" /\ reqs[r].done /\ reqs'[r] # reqs[r]

\* C21: when an updateJobStatus for the job in the slot has returned, the status
\* in the slot equals the status of the job's row.
C21_LiveStatusMatchesAfterFlush ==
  [][/\ \A w \in WorkerIds :
          (FlushReturnsToWorker(w) /\ currentJob'.id = workers[w].job)
            => currentJob'.status = db'[workers[w].job].status
     /\ \A r \in ReqIds :
          (FlushReturnsToRequest(r) /\ currentJob'.id = reqs[r].job)
            => currentJob'.status = db'[reqs[r].job].status]_vars

\* C22: no statement applied to the table moves a job's stored cursor backwards
\* (the feed's next cursor is always beyond the one it was asked for).
C22_CursorNeverMovesBack ==
  [][\A j \in JobIds :
       (db[j] # NoRow /\ db'[j] # NoRow)
         => db'[j].current_offset >= db[j].current_offset]_vars

\* the step in which invocation w calls createShopifyProduct
WriteBegins(w) == workers[w].pc # "create" /\ workers'[w].pc = "create"

\* C23: an invocation launched by resumeSyncJob never calls createShopifyProduct
\* for an item of a page whose items had all been handled when the job's pause
\* succeeded.
C23_NoRewriteOfHandledPage ==
  [][\A w \in WorkerIds :
       (WriteBegins(w) /\ workers'[w].resumeFromOffset # NullOffset)
         => workers'[w].offset_value \notin hist.pausedWith[workers'[w].job]]_vars

\* what getCurrentJobStatus returns: the slot, NullJob when it is empty
getCurrentJobStatus == currentJob

\* C24: when the invocation of a job returns from its pause flush, with the row
\* paused and no other invocation of the job left, the slot does not hold the
\* job and getCurrentJobStatus returns nothing for it.
C24_SlotEmptyAfterPauseFlush ==
  [][\A w \in WorkerIds :
       (/\ workers[w].pc = "upd_paused" /\ workers'[w].pc = "idle"
        /\ db'[workers[w].job].status = "paused"
        /\ \A v \in WorkerIds : workers'[v].job # workers[w].job)
         => getCurrentJobStatus'.id # workers[w].job]_vars

\* C25: when the invocation of a job returns and the job's row is cancelled, the
\* row's processed_products and failed_products are the invocation's counters.
C25_CancelFlushesCounters ==
  [][\A w \in WorkerIds :
       (/\ workers[w].pc # "idle" /\ workers'[w].pc = "idle"
        /\ db'[workers[w].job].status = "cancelled")
         => /\ db'[workers[w].job].processed_products = workers[w].processedProducts
            /\ db'[workers[w].job].failed_products = workers[w].failedProducts]_vars

\* the handled items of invocation record wr that the row d of its job lacks
MissingFromRow(wr, d) ==
  (wr.processedProducts + wr.failedProducts)
    - (d[wr.job].processed_products + d[wr.job].failed_products)

\* C26: whenever an invocation is in the delay after an item, at most one item it
\* handled is missing from the row's counters, and when its progress update after
\* a page returns none is.
C26_FlushEveryTwoItems ==
  [][\A w \in WorkerIds :
       /\ workers'[w].pc = "delay" => MissingFromRow(workers'[w], db') <= 1
       /\ (workers[w].pc = "upd_page" /\ workers'[w] # workers[w])
            => MissingFromRow(workers[w], db') = 0]_vars

\* C27: whenever the slot shows a status it did not show before (a job entering
\* the slot or the status of the job in it changing), the job's row already has
\* that status.
C27_DurableBeforeLive ==
  [][(/\ currentJob'.id # 0
      /\ (currentJob'.id # currentJob.id \/ currentJob'.status # currentJob.status))
       => db'[currentJob'.id].status = currentJob'.status]_vars

\* C28: when an invocation returns from its final update, the row of its job is
\* completed, and when it returns from the update of its catch block the row is
\* failed with an error message; in both cases the slot does not hold the job.
C28_FinalStatusStored ==
  [][\A w \in WorkerIds :
       /\ (workers[w].pc = "upd_done" /\ workers'[w].pc = "idle")
            => /\ db'[workers[w].job].status = "completed"
               /\ currentJob'.id # workers[w].job
       /\ (workers[w].pc = "upd_failed" /\ workers'[w].pc = "idle")
            => /\ db'[workers[w].job].status = "failed"
               /\ db'[workers[w].job].error_message # "none"
               /\ currentJob'.id # workers[w].job]_vars

\* C29: a createShopifyProduct that returns or throws sends the invocation to
\* its catch block exactly when it is the 50th failure in a row of this run;
\* streak counts the failures since the run's last success, whatever the page.
C29_AbortAtFiftyInARow ==
  [][\A w \in WorkerIds :
       workers[w].pc = "create"
         => (workers'[w].pc = "upd_failed"
               <=> workers'[w].streak = maxConsecutiveErrors)]_vars

\* a run is aborted on the second page, 50 failures after its only success
C29_Witness ==
  \E w \in WorkerIds :
    /\ workers[w].pc = "upd_failed" /\ workers[w].op.set.error_message = "streak"
    /\ workers[w].streak = maxConsecutiveErrors
    /\ workers[w].processedProducts = 1 /\ workers[w].offset_value = 1

\* C30: at the step in which an invocation calls createShopifyProduct, the slot
\* holds its job and the slot's status is neither paused nor cancelled.
C30_NoWriteWhenStopped ==
  [][\A w \in WorkerIds :
       WriteBegins(w)
         => /\ currentJob'.id = workers'[w].job
            /\ currentJob'.status \notin {"paused", "cancelled"}]_vars

\* an invocation found its job paused at the head of the for loop with the second
\* item of the page still to write, and flushes instead of writing it
C30_Witness ==
  \E w \in WorkerIds :
    /\ workers[w].pc = "upd_paused" /\ workers[w].i = 2 /\ workers[w].n = 2
    /\ workers[w].processedProducts + workers[w].failedProducts = 1

\* C31: at the step in which an invocation calls createShopifyProduct for an item
\* of a page, an update of this invocation storing that page's offset has been
\* run by the database; stored is the last offset an update of the invocation put
\* in the row.
C31_CursorStoredBeforeWrites ==
  [][\A w \in WorkerIds :
       WriteBegins(w) => workers'[w].stored = workers'[w].offset_value]_vars

\* the first item of a page beyond the first is being written with the page's
\* offset in the row
C31_Witness ==
  \E w \in WorkerIds :
    /\ workers[w].pc = "create" /\ workers[w].i = 1 /\ workers[w].offset_value = 1
    /\ workers[w].stored = 1 /\ db[workers[w].job].current_offset = 1

\* the invocation w is in the catch block after a feed call threw
FeedFailureCaught(w) ==
  workers[w].pc = "upd_failed" /\ workers[w].op.set.error_message = "feed"

\* C32: an invocation whose feed call threw makes no further call and returns,
\* and when it returns its job's row is failed with the feed's error as
\* error_message and the slot is empty.
C32_FeedFailureEndsRun ==
  [][\A w \in WorkerIds :
       FeedFailureCaught(w)
         => /\ workers'[w].pc \in {"upd_failed", "idle"}
            /\ workers'[w].pc = "idle"
                 => /\ db'[workers[w].job].status = "failed"
                    /\ db'[workers[w].job].error_message = "feed"
                    /\ currentJob'.id = 0]_vars

\* C33: when createShopifyProduct returns, processedProducts grows by one and
\* failedProducts stays; when it throws, failedProducts grows by one and
\* processedProducts stays, and below the 50th failure in a row the invocation
\* goes on to the delay before the next item without issuing a statement and
\* without a change to the slot or the table.  (streak is 0 after a success.)
C33_OneCounterPerItem ==
  [][\A w \in WorkerIds :
       (workers[w].pc = "create" /\ workers'[w] # workers[w])
         => IF workers'[w].streak = 0
              THEN /\ workers'[w].processedProducts = workers[w].processedProducts + 1
                   /\ workers'[w].failedProducts = workers[w].failedProducts
              ELSE /\ workers'[w].failedProducts = workers[w].failedProducts + 1
                   /\ workers'[w].processedProducts = workers[w].processedProducts
                   /\ workers'[w].streak < maxConsecutiveErrors
                        => /\ workers'[w].pc = "delay"
                           /\ db' = db /\ dbq' = dbq /\ currentJob' = currentJob]_vars

\* a run has gone on to the delay after a failure that followed a success, its
\* job still processing
C33_Witness ==
  \E w \in WorkerIds :
    /\ workers[w].pc = "delay" /\ workers[w].streak = 1
    /\ workers[w].processedProducts = 1 /\ workers[w].failedProducts = 1
    /\ db[workers[w].job].status = "processing" /\ currentJob.status = "processing"

\* C34: every update that names error_message also sets status failed, and every
\* row with an error message has status failed.
C34_ErrorMessageOnlyWhenFailed ==
  /\ \A w \in WorkerIds :
       workers[w].op.set.error_message # "keep" => workers[w].op.set.status = "failed"
  /\ \A r \in ReqIds :
       reqs[r].op.set.error_message # "keep" => reqs[r].op.set.status = "failed"
  /\ \A j \in JobIds :
       db[j].error_message # "none" => db[j].status = "failed"

\* the page invocation record wr holds ends the feed: it is empty, it says there
\* is no more data, or it carries no next offset
FeedExhausted(wr) == wr.n = 0 \/ ~wr.hasMore \/ wr.next = NullOffset

\* C35: when an invocation has finished with a page that is empty, has hasMore
\* false or has no next offset, it issues the final update with status completed
\* and fetches no further page.
C35_ExhaustedFeedCompletes ==
  [][\A w \in WorkerIds :
       (/\ \/ workers[w].pc = "upd_page"
           \/ workers[w].pc = "upd_off" /\ workers[w].n = 0
        /\ workers'[w].pc # workers[w].pc
        /\ FeedExhausted(workers[w]))
         => /\ workers'[w].pc = "upd_done"
            /\ workers'[w].op.set.status = "completed"]_vars

\* C36: with no Pause, Resume or CancelAll, every job startSyncJob has launched
\* eventually has a row with status completed or failed, and a slot that holds a
\* job is eventually empty.
C36_StartedJobTerminates ==
  /\ \A j \in JobIds :
       (j \in hist.ran) ~> (db[j].status \in {"completed", "failed"})
  /\ (currentJob.id # 0) ~> (currentJob.id = 0)

\* a job that ran over three pages has ended completed and left the slot empty
C36_Witness ==
  \E j \in JobIds :
    /\ j \in hist.ran /\ db[j].status = "completed" /\ currentJob.id = 0
    /\ feed.pages = 3 /\ hist.feedCalls[j] >= 3
    /\ \A w \in WorkerIds : workers[w].pc = "idle"

\* the step in which the database runs the statement of request r
StatementRuns(r) == reqs[r].op.t # "none" /\ ~reqs[r].done /\ reqs'[r].done

\* C37: the update of a cancelSyncJob(id) changes the table only when the row of
\* id is queued, processing or paused, and then only that row's status.
C37_CancelOnlyActive ==
  [][\A r \in ReqIds :
       (reqs[r].kind = "canceljob" /\ StatementRuns(r) /\ db' # db)
         => /\ db[reqs[r].job].status \in Active
            /\ db' = [db EXCEPT ![reqs[r].job].status = "cancelled"]]_vars

\* C38: when an invocation returns from its final update or from the update of
\* its catch block while the slot holds another job, the slot keeps that job.
C38_WorkerClearsOwnSlotOnly ==
  [][\A w \in WorkerIds :
       (/\ workers[w].pc \in {"upd_done", "upd_failed"} /\ workers'[w].pc = "idle"
        /\ currentJob.id # 0 /\ currentJob.id # workers[w].job)
         => currentJob'.id = currentJob.id]_vars

\* C39: when the slot is empty, every invocation has returned and no request is
\* under way, no row has status queued or processing.
C39_NoOrphanActiveRow ==
  (/\ currentJob.id = 0
   /\ \A w \in WorkerIds : workers[w].pc = "idle"
   /\ NoRequestInFlight)
    => \A j \in JobIds : db[j].status \notin {"queued", "processing"}

\* the invocations that are inside a feed call or a destination call
InCall(pcs) == {w \in WorkerIds : workers[w].pc \in pcs}

\* C40: no two invocations of the same job are inside a feed or destination call
\* at the same time, and no two invocations at all are inside createShopifyProduct
\* at the same time.
C40_OneInvocationPerJob ==
  /\ \A v, w \in InCall({"probe", "fetch", "create"}) :
       workers[v].job = workers[w].job => v = w
  /\ Cardinality(InCall({"create"})) <= 1

====
